---- MODULE Spec2Model ----
(***************************************************************************)
(* Extensive-form Liapunov module (sources/eliap.cc): the Liapunov         *)
(* objective EFLiapFunc::Value, the random restart sampler                 *)
(* PickRandomProfile, the search driver Liap and the solve-by-subgame      *)
(* interface EFLiapBySubgame::SolveSubgame with its constructor; and the   *)
(* transposition of a rectangular array (sources/libgambit/grarray.h).     *)
(*                                                                         *)
(* Reals are fixed point: a probability is an integer number of 1/Scale    *)
(* units (1.0 is Scale), a conditional payoff is an integer, and the       *)
(* objective is an integer number of 1/Scale^2 units.  A game is given by  *)
(* its dimensionality: E[pl][iset] is the number of active actions of      *)
(* information set iset of player pl.  A profile is the flat vector of its *)
(* action probabilities in (player, infoset, action) order.                *)
(***************************************************************************)
EXTENDS Integers, Sequences, FiniteSets, TLC

\* ------------------------------------------------------------------ bounds
Scale == 4            \* fixed-point unit: the real 1.0
MaxTries == 2         \* largest nTries tried besides the default
MaxStop == 2          \* largest stopAfter tried
MaxCalls == 2         \* number of SolveSubgame calls on one object
MaxPay == 1           \* conditional payoffs range over -MaxPay..MaxPay
MaxValueCalls == 1    \* invocations of Value on one EFLiapFunc
MaxIndex == 2         \* largest row or column index of an array

\* ------------------------------------------------------- program constants
BIG1 == 10000
BIG2 == 100
DefaultNTries == 10
DefaultStopAfter == 1

\* ------------------------------------------------------------ the games
\* The full game: player 1 has infosets with 1 and 3 actions, player 2 has
\* one infoset with 1 action.
FullGame == << <<1, 3>>, <<1>> >>
\* The game the objective is evaluated on.
ValueGame == << <<2, 1>>, <<1>> >>
\* The marked subgame roots, in the order MarkedSubgameRoots lists them.
subroots == << "root", "sub" >>

RECURSIVE SeqSum(_)
SeqSum(s) == IF s = << >> THEN 0 ELSE Head(s) + SeqSum(Tail(s))

NumPlayers(G) == Len(G)
NumInfosets(G, q) == Len(G[q])
NumActions(G, q, j) == G[q][j]

RECURSIVE DimBefore(_, _)
DimBefore(G, q) == IF q = 1 THEN 0 ELSE DimBefore(G, q - 1) + SeqSum(G[q - 1])

\* Length of the profile vector of game G.
Length(G) == DimBefore(G, NumPlayers(G) + 1)

\* Position of p(q, j, k) in the flat vector.
Idx(G, q, j, k) == DimBefore(G, q) + SeqSum(SubSeq(G[q], 1, j - 1)) + k

Infosets(G) ==
  UNION { { <<q, j>> : j \in 1..NumInfosets(G, q) } : q \in 1..NumPlayers(G) }

RECURSIVE SumTo(_, _)
\* f[1] + ... + f[n]
SumTo(f, n) == IF n = 0 THEN 0 ELSE SumTo(f, n - 1) + f[n]

\* ------------------------------------------------ EFLiapFunc::Value (45-86)
\* line 70: if (x > 0.0) x = 0.0
NegPart_KeepPositive(x) == x
NegPart(x) == IF x > 0 THEN 0 ELSE x

\* line 76: if (x < 0.0) x = 0.0
PosPart(x) == IF x < 0 THEN 0 ELSE x

\* The three penalty terms of infoset j of player q (lines 63-81), in
\* 1/Scale^2 units: avg and sum are in 1/Scale units.
InfosetPenalty(G, pr, cp, q, j) ==
  LET n == NumActions(G, q, j)
      x == [k \in 1..n |-> pr[Idx(G, q, j, k)]]
      c == [k \in 1..n |-> cp[Idx(G, q, j, k)]]
      avg == SumTo([k \in 1..n |-> x[k] * c[k]], n)
      tot == SumTo(x, n)
      neg == SumTo([k \in 1..n |-> BIG1 * NegPart(x[k]) * NegPart(x[k])], n)
      dev == SumTo([k \in 1..n |-> PosPart(Scale * c[k] - avg)
                                     * PosPart(Scale * c[k] - avg)], n)
  IN neg + dev + BIG2 * (tot - Scale) * (tot - Scale)

PlayerPenalty(G, pr, cp, q) ==
  SumTo([j \in 1..NumInfosets(G, q) |-> InfosetPenalty(G, pr, cp, q, j)],
        NumInfosets(G, q))

\* The returned result (lines 60-85).
Value(G, pr, cp) ==
  SumTo([q \in 1..NumPlayers(G) |-> PlayerPenalty(G, pr, cp, q)], NumPlayers(G))

\* ------------------------------------------------------------ state
VARIABLES
  pc,                \* "idle", "loop" (the for condition), "pick", "minimize";
                     \* "value" when the objective is exercised on its own
  status,            \* params.status: the cancellation flag
  nTries, stopAfter, \* params.nTries, params.stopAfter
  solutions,         \* the caller's solution list
  E,                 \* the game of the current call
  p,                 \* Liap: the current profile
  i,                 \* Liap: the loop counter
  found,             \* Liap: result of the last Powell call
  F_nevals,          \* EFLiapFunc::_nevals of the call's objective F
  this_nevals,       \* the evaluation count Liap reported
  ret,               \* the value Liap returned
  rc,                \* the value SolveSubgame returned
  pl, iset, act,     \* PickRandomProfile: loop counters
  sum, tmp,          \* PickRandomProfile: partial sum and last draw
  subgame_number,    \* EFLiapBySubgame::subgame_number
  nevals,            \* EFLiapBySubgame::nevals
  infoset_subgames,  \* EFLiapBySubgame::infoset_subgames
  start,             \* EFLiapBySubgame::start
  bp,                \* SolveSubgame: the starting profile it builds
  v, cpay, result,   \* EFLiapFunc::Value: argument, _cpay, returned value
  F_p,               \* EFLiapFunc::_p
  entryLen,          \* history: solutions.Length() on entry to Liap
  signalled,         \* history: the flag has been set during this call
  nFound,            \* history: successful Powell runs of this call
  invocations,       \* history: objective invocations since construction
  memberRoot,        \* the game: GetSubgameRoot() of each infoset's member 1
  minrow, maxrow,    \* gbtRectArray: the row bounds
  mincol, maxcol,    \* gbtRectArray: the column bounds
  data,              \* gbtRectArray: the elements, by <<row, column>>
  transposed         \* Transpose: the array it returned or the exception

liapVars == << pc, status, nTries, stopAfter, solutions, E, p, i, found,
               F_nevals, this_nevals, ret, rc >>
pickVars == << pl, iset, act, sum, tmp >>
subgameVars == << subgame_number, nevals, infoset_subgames, start, bp >>
valueVars == << v, cpay, result, F_p >>
histVars == << entryLen, signalled, nFound, invocations >>
ctorVars == << memberRoot >>
arrayVars == << minrow, maxrow, mincol, maxcol, data, transposed >>
vars == << liapVars, pickVars, subgameVars, valueVars, histVars, ctorVars,
           arrayVars >>

\* --------------------------------------------- PickRandomProfile (89-111)
\* Uniform(): a value of [0, 1)
UniformValues == 0..(Scale - 1)

\* line 102: the draw is kept unless tmp + sum > 1.0
Accept_Always(t, s) == TRUE
Accept(t, s) == ~(t + s > Scale)

RECURSIVE NextPos(_, _, _)
\* The (player, infoset) the loops of lines 93-95 visit after (q, j);
\* <<NumPlayers + 1, 1>> when there is none.
NextPos(G, q, j) ==
  IF q > NumPlayers(G) THEN <<q, 1>>
  ELSE IF j + 1 <= NumInfosets(G, q) THEN <<q, j + 1>>
  ELSE NextPos(G, q + 1, 0)

FirstPos(G) == NextPos(G, 1, 0)

\* ------------------------------------------------- AddSolution (114-120)
AddSolution_Overwrite(sols, prof, value) ==
  IF sols = << >> THEN << [profile |-> prof, liap |-> value] >>
  ELSE [sols EXCEPT ![Len(sols)] = [profile |-> prof, liap |-> value]]
AddSolution(sols, prof, value) ==
  Append(sols, [profile |-> prof, liap |-> value])

\* ---------------------------------------------------------- Liap (145-179)
\* lines 160-161: the condition of the for loop
LoopCond_NoTries(st, n, tries, stop, len) ==
  ~st /\ (stop = 0 \/ len < stop)
LoopCond_NoStatus(st, n, tries, stop, len) ==
  n <= tries /\ (stop = 0 \/ len < stop)
LoopCond_NoStop(st, n, tries, stop, len) ==
  ~st /\ n <= tries
LoopCond(st, n, tries, stop, len) ==
  ~st /\ n <= tries /\ (stop = 0 \/ len < stop)

\* line 172: if (params.status.Get()) params.status.Reset()
ResetIfSet(st) == IF st THEN FALSE ELSE st

\* line 178
LiapReturn(sols) == Len(sols) > 0

\* Powell is external (lines 136-142).  The model distinguishes these
\* outcomes of one run: it converges or not, it sees a cancellation request
\* or not, it reports the function value 0 or a positive one, a run that
\* converges costs one evaluation of the objective and a run that hits its
\* iteration cap two, and it leaves p at a vertex of the simplices.
PowellValues == {0, 1}
PowellEvals(fnd) == IF fnd THEN 1 ELSE 2
PureProfile(G, a) ==
  [n \in 1..Length(G) |->
     IF \E s \in Infosets(G) :
          n = Idx(G, s[1], s[2], IF a <= NumActions(G, s[1], s[2])
                                  THEN a ELSE NumActions(G, s[1], s[2]))
     THEN Scale ELSE 0]
PowellPoints(G) == { PureProfile(G, 1) }

\* ------------------------------------ EFLiapBySubgame::SolveSubgame (189-215)
RECURSIVE Restrict(_, _, _, _)
\* The infosets of one player that belong to subgame k, in full-game order.
Restrict(acts, idx, k, j) ==
  IF j > Len(acts) THEN << >>
  ELSE (IF idx[j] = k THEN << acts[j] >> ELSE << >>) \o Restrict(acts, idx, k, j + 1)

\* The game of subgame k handed to SolveSubgame.
SubgameOf(isg, k) ==
  [q \in 1..NumPlayers(FullGame) |-> Restrict(FullGame[q], isg[q], k, 1)]

\* BehavProfile<double> bp(E)
FreshProfile(G) == [n \in 1..Length(G) |-> 0]

\* lines 202-203: copy the actions of full-game infoset j into local infoset m
CopyActions(G, b, st, q, j, m) ==
  [n \in 1..Length(G) |->
     IF \E a \in 1..NumActions(G, q, m) : n = Idx(G, q, m, a)
     THEN st[Idx(FullGame, q, j, n - Idx(G, q, m, 0))]
     ELSE b[n]]

\* line 204: niset++
NextLocal_Stuck(m) == m
NextLocal(m) == m + 1

RECURSIVE CopyPlayer(_, _, _, _, _, _, _, _)
\* lines 199-206 for player q, from full-game infoset j with niset = m
CopyPlayer(G, b, st, isg, k, q, j, m) ==
  IF j > Len(isg[q]) THEN b
  ELSE IF isg[q][j] = k
       THEN CopyPlayer(G, CopyActions(G, b, st, q, j, m), st, isg, k, q,
                       j + 1, NextLocal(m))
       ELSE CopyPlayer(G, b, st, isg, k, q, j + 1, m)

RECURSIVE CopyPlayers(_, _, _, _, _, _)
\* lines 198-207, from player q on
CopyPlayers(G, b, st, isg, k, q) ==
  IF q > NumPlayers(G) THEN b
  ELSE CopyPlayers(G, CopyPlayer(G, b, st, isg, k, q, 1, 1), st, isg, k, q + 1)

\* line 213: nevals += this_nevals
Accumulate_Overwrite(total, this) == this
Accumulate(total, this) == total + this

\* ---------------------------- EFLiapBySubgame::EFLiapBySubgame (219-244)
RECURSIVE ScanRoots(_, _)
\* lines 235-236: the linear scan of the marked roots
ScanRoots(root, index) ==
  IF index <= Len(subroots) /\ root # subroots[index]
  THEN ScanRoots(root, index + 1) ELSE index

\* The subgame root of the first member of each infoset of the full game.
MemberRoots == [Infosets(FullGame) -> { subroots[n] : n \in 1..Len(subroots) }]

\* lines 227-242: the subgame index of every infoset
Construct(m) ==
  [q \in 1..NumPlayers(FullGame) |->
     [j \in 1..NumInfosets(FullGame, q) |-> ScanRoots(m[<<q, j>>], 1)]]

\* line 238: assert(index <= subroots.Length())
AssertHolds_Skipped(index) == TRUE
AssertHolds(index) == index <= Len(subroots)

\* The nodes GetSubgameRoot() can name: the marked roots and a node that
\* MarkedSubgameRoots did not list.
Nodes == { subroots[n] : n \in 1..Len(subroots) } \cup { "other" }
MemberNodes == [Infosets(FullGame) -> Nodes]

\* ------------------------------------------------------------ initial state
\* The starting profiles of the full game handed to the constructor.
StartProfiles ==
  { << Scale, 0, Scale - 1, 1, Scale + 1 >>,
    << Scale - 1, 1, 1, Scale - 2, Scale >> }

\* nTries and stopAfter: the defaults of EFLiapParams (line 13) or small values
ParamPairs ==
  ((0..MaxTries) \X (0..MaxStop)) \cup { <<DefaultNTries, DefaultStopAfter>> }

ValueIdle ==
  /\ v = << >>
  /\ cpay = << >>
  /\ result = 0
  /\ F_p = << >>

PickIdle ==
  /\ pl = 0
  /\ iset = 0
  /\ act = 0
  /\ sum = 0
  /\ tmp = 0

\* No array is under study: the default gbtRectArray (grarray.h 144-146).
ArrayIdle ==
  /\ minrow = 1
  /\ maxrow = 0
  /\ mincol = 1
  /\ maxcol = 0
  /\ data = << >>
  /\ transposed = << >>

\* No call is active: the locals of Liap and SolveSubgame do not exist.
LocalsGone ==
  /\ E = << >>
  /\ p = << >>
  /\ bp = << >>
  /\ i = 0
  /\ found = FALSE
  /\ F_nevals = 0

\* The state after EFLiapParams and EFLiapBySubgame are constructed.
Constructed ==
  /\ status = FALSE
  /\ \E pr \in ParamPairs : nTries = pr[1] /\ stopAfter = pr[2]
  /\ solutions = << >>
  /\ start \in StartProfiles
  /\ this_nevals = 0
  /\ ret = FALSE
  /\ rc = FALSE
  /\ PickIdle
  /\ subgame_number = 0
  /\ nevals = 0
  /\ memberRoot \in MemberRoots
  /\ infoset_subgames = Construct(memberRoot)
  /\ entryLen = 0
  /\ signalled = FALSE
  /\ nFound = 0
  /\ invocations = 0

Init ==
  /\ pc = "idle"
  /\ Constructed
  /\ LocalsGone
  /\ ValueIdle
  /\ ArrayIdle

\* ------------------------------------------------------------ actions
\* The controller requests cancellation between two solves.
Cancel ==
  /\ pc = "idle"
  /\ ~status
  /\ status' = TRUE
  /\ UNCHANGED << pc, nTries, stopAfter, solutions, E, p, i, found, F_nevals,
                  this_nevals, ret, rc >>
  /\ UNCHANGED << pickVars, subgameVars, valueVars, histVars >>
  /\ UNCHANGED << ctorVars, arrayVars >>

\* SolveSubgame, lines 192-211, up to the first test of Liap's loop
\* (lines 150-160).  The caller hands in a new list or the list of the
\* earlier subgames.
SolveSubgame ==
  /\ pc = "idle"
  /\ subgame_number < MaxCalls
  /\ \E fresh \in BOOLEAN :
       solutions' = IF fresh THEN << >> ELSE solutions
  /\ subgame_number' = subgame_number + 1
  /\ E' = SubgameOf(infoset_subgames, subgame_number')
  /\ bp' = CopyPlayers(E', FreshProfile(E'), start, infoset_subgames,
                       subgame_number', 1)
  /\ p' = bp'
  /\ F_nevals' = 0
  /\ i' = 1
  /\ pc' = "loop"
  /\ entryLen' = Len(solutions')
  /\ signalled' = status
  /\ nFound' = 0
  /\ found' = FALSE
  /\ this_nevals' = 0
  /\ ret' = FALSE
  /\ rc' = FALSE
  /\ UNCHANGED << status, nTries, stopAfter >>
  /\ UNCHANGED << nevals, infoset_subgames, start, invocations >>
  /\ UNCHANGED << pickVars, valueVars >>
  /\ UNCHANGED << ctorVars, arrayVars >>

\* The loop condition holds: the body starts (lines 160-163).
LoopEnter ==
  /\ pc = "loop"
  /\ LoopCond(status, i, nTries, stopAfter, Len(solutions))
  /\ IF i > 1 /\ FirstPos(E)[1] <= NumPlayers(E)
     THEN /\ pc' = "pick"
          /\ pl' = FirstPos(E)[1]
          /\ iset' = FirstPos(E)[2]
          /\ act' = 1
          /\ sum' = 0
          /\ tmp' = tmp
     ELSE /\ pc' = "minimize"
          /\ UNCHANGED pickVars
  /\ UNCHANGED << status, nTries, stopAfter, solutions, E, p, i, found,
                  F_nevals, this_nevals, ret, rc >>
  /\ UNCHANGED << subgameVars, valueVars, histVars >>
  /\ UNCHANGED << ctorVars, arrayVars >>

\* PickRandomProfile, lines 100-104: a draw that is kept
PickDraw ==
  /\ pc = "pick"
  /\ act < NumActions(E, pl, iset)
  /\ \E t \in UniformValues :
       /\ Accept(t, sum)
       /\ tmp' = t
       /\ p' = [p EXCEPT ![Idx(E, pl, iset, act)] = t]
       /\ sum' = sum + t
  /\ act' = act + 1
  /\ UNCHANGED << pc, status, nTries, stopAfter, solutions, E, i, found,
                  F_nevals, this_nevals, ret, rc, pl, iset >>
  /\ UNCHANGED << subgameVars, valueVars, histVars >>
  /\ UNCHANGED << ctorVars, arrayVars >>

\* PickRandomProfile, lines 100-102: a draw that is rejected and repeated
PickRedraw ==
  /\ pc = "pick"
  /\ act < NumActions(E, pl, iset)
  /\ \E t \in UniformValues :
       /\ ~Accept(t, sum)
       /\ tmp' = t
  /\ UNCHANGED << liapVars, pl, iset, act, sum >>
  /\ UNCHANGED << subgameVars, valueVars, histVars >>
  /\ UNCHANGED << ctorVars, arrayVars >>

\* PickRandomProfile, line 108, and the step to the next infoset
PickLast ==
  /\ pc = "pick"
  /\ act = NumActions(E, pl, iset)
  /\ p' = [p EXCEPT ![Idx(E, pl, iset, act)] = Scale - sum]
  /\ IF NextPos(E, pl, iset)[1] <= NumPlayers(E)
     THEN /\ pl' = NextPos(E, pl, iset)[1]
          /\ iset' = NextPos(E, pl, iset)[2]
          /\ act' = 1
          /\ sum' = 0
          /\ tmp' = 0
          /\ pc' = pc
     ELSE /\ pl' = 0
          /\ iset' = 0
          /\ act' = 0
          /\ sum' = 0
          /\ tmp' = 0
          /\ pc' = "minimize"
  /\ UNCHANGED << status, nTries, stopAfter, solutions, E, i, found,
                  F_nevals, this_nevals, ret, rc >>
  /\ UNCHANGED << subgameVars, valueVars, histVars >>
  /\ UNCHANGED << ctorVars, arrayVars >>

\* Lines 165-172 and the i++ of line 162: Powell runs, a solution is added
\* when it succeeds, and the flag is reset when it is set.
Minimize ==
  /\ pc = "minimize"
  /\ \E fnd \in BOOLEAN, pt \in PowellPoints(E), value \in PowellValues,
        brk \in BOOLEAN :
       /\ found' = fnd
       /\ p' = pt
       /\ F_nevals' = F_nevals + PowellEvals(fnd)
       /\ invocations' = invocations + PowellEvals(fnd)
       /\ solutions' = IF fnd THEN AddSolution(solutions, pt, value)
                              ELSE solutions
       /\ status' = ResetIfSet(status \/ brk)
       /\ signalled' = (signalled \/ brk)
       /\ nFound' = IF fnd THEN nFound + 1 ELSE nFound
  /\ i' = i + 1
  /\ pc' = "loop"
  /\ UNCHANGED << nTries, stopAfter, E, this_nevals, ret, rc, entryLen >>
  /\ UNCHANGED << pickVars, subgameVars, valueVars >>
  /\ UNCHANGED << ctorVars, arrayVars >>

\* The loop condition fails: Liap returns (lines 175-178) and SolveSubgame
\* finishes (lines 213-214).
LoopExit ==
  /\ pc = "loop"
  /\ ~LoopCond(status, i, nTries, stopAfter, Len(solutions))
  /\ this_nevals' = F_nevals
  /\ ret' = LiapReturn(solutions)
  /\ nevals' = Accumulate(nevals, this_nevals')
  /\ rc' = status
  /\ pc' = "idle"
  /\ E' = << >>
  /\ p' = << >>
  /\ bp' = << >>
  /\ i' = 0
  /\ found' = FALSE
  /\ F_nevals' = 0
  /\ UNCHANGED << status, nTries, stopAfter, solutions >>
  /\ UNCHANGED << subgame_number, infoset_subgames, start >>
  /\ UNCHANGED << pickVars, valueVars, histVars >>
  /\ UNCHANGED << ctorVars, arrayVars >>

Next ==
  \/ Cancel
  \/ SolveSubgame
  \/ LoopEnter
  \/ PickDraw
  \/ PickRedraw
  \/ PickLast
  \/ Minimize
  \/ LoopExit

Spec == Init /\ [][Next]_vars

\* --------------------------------------------- the driver under fairness
\* Liap is sequential code: its next step is taken whenever there is one,
\* and Powell returns.  The do-while of lines 100-102 is left when Uniform()
\* yields a value that fits; the generator yields such a value eventually.
LiapStep == LoopEnter \/ PickLast \/ Minimize \/ LoopExit

Fairness == WF_vars(LiapStep) /\ WF_vars(PickDraw)

\* The constructed objects termination is checked on: the three-action
\* infoset lies in either subgame, the other infosets in the first.
InitLive ==
  /\ Init
  /\ memberRoot[<<1, 1>>] = subroots[1]
  /\ memberRoot[<<2, 1>>] = subroots[1]
  /\ start[1] = Scale

SpecLive == InitLive /\ [][Next]_vars /\ Fairness

\* ------------------------------------------- the objective on its own
\* Arguments: a negative entry, 0, 1/Scale, 1 - 1/Scale and 1.
ProbValues == {0 - 1, 0, 1, Scale - 1, Scale}
PayValues == (0 - MaxPay)..MaxPay

\* An EFLiapFunc on ValueGame (lines 36-39), an argument vector and the
\* conditional payoffs CondPayoff yields for it (line 58).
InitValue ==
  /\ pc = "value"
  /\ status = FALSE
  /\ nTries = DefaultNTries
  /\ stopAfter = DefaultStopAfter
  /\ solutions = << >>
  /\ E = ValueGame
  /\ p = << >>
  /\ bp = << >>
  /\ i = 0
  /\ found = FALSE
  /\ F_nevals = 0
  /\ this_nevals = 0
  /\ ret = FALSE
  /\ rc = FALSE
  /\ PickIdle
  /\ subgame_number = 0
  /\ nevals = 0
  /\ infoset_subgames = << >>
  /\ start = << >>
  /\ v \in [1..Length(ValueGame) -> ProbValues]
  /\ cpay \in [1..Length(ValueGame) -> PayValues]
  /\ result = 0
  /\ F_p = [n \in 1..Length(ValueGame) |-> 0]
  /\ entryLen = 0
  /\ signalled = FALSE
  /\ nFound = 0
  /\ invocations = 0
  /\ memberRoot = << >>
  /\ ArrayIdle

\* One invocation of EFLiapFunc::Value (lines 45-86).
Evaluate ==
  /\ pc = "value"
  /\ F_nevals < MaxValueCalls
  /\ F_nevals' = F_nevals + 1
  /\ F_p' = v
  /\ result' = Value(E, F_p', cpay)
  /\ invocations' = invocations + 1
  /\ UNCHANGED << pc, status, nTries, stopAfter, solutions, E, p, i, found,
                  this_nevals, ret, rc, v, cpay, entryLen, signalled, nFound >>
  /\ UNCHANGED << pickVars, subgameVars >>
  /\ UNCHANGED << ctorVars, arrayVars >>

NextValue == Evaluate

SpecValue == InitValue /\ [][NextValue]_vars

\* ------------------------------------------- the constructor on its own
\* The arguments of the constructor (line 219): the game, whose infosets'
\* first members name their subgame roots, the parameters and the start
\* profile.  infoset_subgames is sized by the game and not yet filled.
InitCtor ==
  /\ pc = "new"
  /\ status = FALSE
  /\ \E pr \in ParamPairs : nTries = pr[1] /\ stopAfter = pr[2]
  /\ solutions = << >>
  /\ start \in StartProfiles
  /\ this_nevals = 0
  /\ ret = FALSE
  /\ rc = FALSE
  /\ PickIdle
  /\ subgame_number = 0
  /\ nevals = 0
  /\ memberRoot \in MemberNodes
  /\ infoset_subgames = [q \in 1..NumPlayers(FullGame) |->
                           [j \in 1..NumInfosets(FullGame, q) |-> 0]]
  /\ entryLen = 0
  /\ signalled = FALSE
  /\ nFound = 0
  /\ invocations = 0
  /\ LocalsGone
  /\ ValueIdle
  /\ ArrayIdle

\* EFLiapBySubgame::EFLiapBySubgame (lines 219-244): every infoset gets the
\* index its scan ends with; the first scan that runs off the list fails
\* the assertion of line 238 and the process is aborted.
EFLiapBySubgame ==
  /\ pc = "new"
  /\ LET isg == Construct(memberRoot)
     IN IF \A s \in Infosets(FullGame) : AssertHolds(isg[s[1]][s[2]])
        THEN /\ pc' = "built"
             /\ infoset_subgames' = isg
        ELSE /\ pc' = "aborted"
             /\ UNCHANGED infoset_subgames
  /\ subgame_number' = 0
  /\ nevals' = 0
  /\ UNCHANGED << status, nTries, stopAfter, solutions, E, p, i, found,
                  F_nevals, this_nevals, ret, rc, start, bp >>
  /\ UNCHANGED << pickVars, valueVars, histVars, ctorVars, arrayVars >>

NextCtor == EFLiapBySubgame

SpecCtor == InitCtor /\ [][NextCtor]_vars

\* ------------------------------------- gbtRectArray (libgambit/grarray.h)
\* An array is a record of its four bounds and its elements, a function of
\* <<row, column>>; thrown tells that gbtIndexException left the operation.
CheckRow(a, row) == a.minrow <= row /\ row <= a.maxrow

CheckColumn(a, col) == a.mincol <= col /\ col <= a.maxcol

Check(a, row, col) == CheckRow(a, row) /\ CheckColumn(a, col)

\* The element values.
ArrayValues == {0, 1}

Cells(minr, maxr, minc, maxc) == (minr..maxr) \X (minc..maxc)

\* gbtRectArray(minr, maxr, minc, maxc), lines 157-164: the elements are
\* allocated and not initialised, so they hold whatever content was there.
gbtRectArray(minr, maxr, minc, maxc, content) ==
  [thrown |-> FALSE, minrow |-> minr, maxrow |-> maxr, mincol |-> minc,
   maxcol |-> maxc, data |-> content]

\* line 390: the last column index the inner loop visits
InnerLast(a) == a.maxrow

RECURSIVE TransposeLoop(_, _, _, _)
\* lines 389-391 from i = r, j = c on: operator() (lines 225-237) throws
\* when Check fails, on tmp(j,i) or on (*this)(i,j)
TransposeLoop(a, t, r, c) ==
  IF r > a.maxrow THEN t
  ELSE IF c > InnerLast(a) THEN TransposeLoop(a, t, r + 1, a.mincol)
  ELSE IF ~Check(t, c, r) \/ ~Check(a, r, c) THEN [t EXCEPT !.thrown = TRUE]
  ELSE TransposeLoop(a, [t EXCEPT !.data[<<c, r>>] = a.data[<<r, c>>]],
                     r, c + 1)

\* The array Transpose is called on.
This ==
  [thrown |-> FALSE, minrow |-> minrow, maxrow |-> maxrow, mincol |-> mincol,
   maxcol |-> maxcol, data |-> data]

\* Arrays with any offsets, empty ones included, and any elements.
InitTranspose ==
  /\ pc = "array"
  /\ minrow \in 0..MaxIndex
  /\ maxrow \in (minrow - 1)..MaxIndex
  /\ mincol \in 0..MaxIndex
  /\ maxcol \in (mincol - 1)..MaxIndex
  /\ data \in [Cells(minrow, maxrow, mincol, maxcol) -> ArrayValues]
  /\ transposed = << >>
  /\ status = FALSE
  /\ nTries = DefaultNTries
  /\ stopAfter = DefaultStopAfter
  /\ solutions = << >>
  /\ this_nevals = 0
  /\ ret = FALSE
  /\ rc = FALSE
  /\ PickIdle
  /\ subgame_number = 0
  /\ nevals = 0
  /\ infoset_subgames = << >>
  /\ start = << >>
  /\ memberRoot = << >>
  /\ entryLen = 0
  /\ signalled = FALSE
  /\ nFound = 0
  /\ invocations = 0
  /\ LocalsGone
  /\ ValueIdle

\* gbtRectArray::Transpose (lines 385-394): tmp is built with the bounds
\* swapped, the loops copy, and tmp is returned unless an access threw.
Transpose ==
  /\ pc = "array"
  /\ \E content \in [Cells(mincol, maxcol, minrow, maxrow) -> ArrayValues] :
       LET t == TransposeLoop(This,
                  gbtRectArray(mincol, maxcol, minrow, maxrow, content),
                  minrow, mincol)
       IN IF t.thrown
          THEN /\ pc' = "thrown"
               /\ transposed' = << >>
          ELSE /\ pc' = "returned"
               /\ transposed' = t
  /\ UNCHANGED << minrow, maxrow, mincol, maxcol, data >>
  /\ UNCHANGED << status, nTries, stopAfter, solutions, E, p, i, found,
                  F_nevals, this_nevals, ret, rc >>
  /\ UNCHANGED << pickVars, subgameVars, valueVars, histVars, ctorVars >>

NextTranspose == Transpose

SpecTranspose == InitTranspose /\ [][NextTranspose]_vars

\* ------------------------------------------------------------ properties
InBody == pc \in {"pick", "minimize"}

\* C1: in a call that starts with an empty list and stopAfter > 0, no attempt
\* is under way once stopAfter solutions are collected and the list never
\* holds more than stopAfter solutions; with stopAfter = 1 a call that found
\* a solution returns exactly one.
C1_StopAfterBoundsList ==
  (entryLen = 0 /\ stopAfter > 0) =>
     /\ Len(solutions) <= stopAfter
     /\ InBody => Len(solutions) < stopAfter
     /\ (pc = "idle" /\ stopAfter = 1 /\ nFound > 0) => Len(solutions) = 1

\* C1 witness: nTries = 10, stopAfter = 1, the first success is in the list
\* and the loop test is reached with attempts left.
C1_Witness ==
  /\ pc = "loop"
  /\ nTries = DefaultNTries
  /\ stopAfter = DefaultStopAfter
  /\ entryLen = 0
  /\ ~status
  /\ i > 1
  /\ i <= nTries
  /\ found
  /\ Len(solutions) = 1

\* C2: when the flag is set at the first loop test of a call whose list is
\* empty, the next step is the return: Powell is not run, zero evaluations
\* are reported, the list stays empty and Liap returns false.
C2_PresetCancelRunsNothing ==
  [][(pc = "loop" /\ i = 1 /\ status /\ solutions = << >>) =>
       /\ pc' = "idle"
       /\ this_nevals' = 0
       /\ invocations' = invocations
       /\ solutions' = << >>
       /\ ret' = FALSE]_vars

\* C2 witness: a call with attempts allowed has returned with the flag set
\* on entry.
C2_Witness ==
  /\ pc = "idle"
  /\ subgame_number > 0
  /\ nTries >= 1
  /\ signalled
  /\ rc
  /\ ~ret
  /\ this_nevals = 0
  /\ solutions = << >>

\* C3 as claimed: once the flag has been set in a call, before the first
\* attempt or during a Powell run, no further attempt of that call starts.
C3_NoAttemptAfterCancel == signalled => ~InBody

\* C4 as claimed: when the call that returned last saw the cancellation
\* signal, the flag is reset when it returns, so SolveSubgame returns 0 and
\* the next call is not aborted.
C4_CancelConsumedOnReturn ==
  (pc = "idle" /\ subgame_number > 0 /\ signalled) => ~rc

\* C5 as claimed: Liap returns true exactly when an attempt of that call
\* succeeded.
C5_ReturnsWhetherFound ==
  (pc = "idle" /\ subgame_number > 0) => (ret = (nFound > 0))

\* C6: during a call the list changes only in the step of a successful
\* Powell run, which appends the resulting profile and leaves the earlier
\* solutions as they are; after a failed run the list is the same, and when
\* attempts remain the loop condition holds again.
C6_AppendOnlyOnSuccess ==
  [][(pc \in {"loop", "pick", "minimize"}) =>
       /\ (pc = "minimize" /\ found') =>
            /\ Len(solutions') = Len(solutions) + 1
            /\ SubSeq(solutions', 1, Len(solutions)) = solutions
            /\ solutions'[Len(solutions')].profile = p'
       /\ ~(pc = "minimize" /\ found') => solutions' = solutions
       /\ (pc = "minimize" /\ ~found' /\ i < nTries) =>
            /\ pc' = "loop"
            /\ ~status'
            /\ i' <= nTries
            /\ (stopAfter = 0 \/ Len(solutions') < stopAfter)]_vars

\* C6 witness: an attempt failed, the next attempt is under way, and the
\* list holds a solution.
C6_Witness ==
  /\ pc = "minimize"
  /\ i >= 2
  /\ ~found
  /\ Len(solutions) > 0

\* A valid, best-responding distribution at every infoset.
BestResponding(G, pr, cp) ==
  \A s \in Infosets(G) :
    LET acts == 1..NumActions(G, s[1], s[2])
        pos(k) == Idx(G, s[1], s[2], k)
        avg == SumTo([k \in acts |-> pr[pos(k)] * cp[pos(k)]],
                     NumActions(G, s[1], s[2]))
    IN /\ \A k \in acts : pr[pos(k)] >= 0
       /\ SumTo([k \in acts |-> pr[pos(k)]], NumActions(G, s[1], s[2])) = Scale
       /\ \A k \in acts : Scale * cp[pos(k)] <= avg

\* C7: the objective is never negative; it is zero exactly at the profiles
\* with non-negative probabilities that sum to 1 and no action paying more
\* than the average at every infoset; it is positive when a probability is
\* negative.
C7_ValueZeroIffEquilibrium ==
  (pc = "value" /\ F_nevals > 0) =>
     /\ result >= 0
     /\ (result = 0) <=> BestResponding(E, v, cpay)
     /\ (\E n \in 1..Length(E) : v[n] < 0) => result > 0

\* C7 witness: a properly mixed profile is evaluated to zero.
C7_Witness ==
  /\ pc = "value"
  /\ F_nevals > 0
  /\ result = 0
  /\ \E n \in 1..Length(E) : v[n] > 0 /\ v[n] < Scale
  /\ \E n \in 1..Length(E) : cpay[n] # 0

\* C8: when PickRandomProfile has returned, every probability is in [0, 1]
\* and the probabilities of every infoset sum to 1.
C8_SampledProfileIsDistribution ==
  (pc = "minimize" /\ i > 1) =>
     \A s \in Infosets(E) :
        /\ \A k \in 1..NumActions(E, s[1], s[2]) :
             p[Idx(E, s[1], s[2], k)] \in 0..Scale
        /\ SumTo([k \in 1..NumActions(E, s[1], s[2]) |-> p[Idx(E, s[1], s[2], k)]],
                 NumActions(E, s[1], s[2])) = Scale

\* C8 witness: a sampled profile with a three-action infoset whose three
\* probabilities are all positive.
C8_Witness ==
  /\ pc = "minimize"
  /\ i > 1
  /\ \E s \in Infosets(E) :
       /\ NumActions(E, s[1], s[2]) = 3
       /\ \A k \in 1..3 : p[Idx(E, s[1], s[2], k)] > 0

\* C9: the running total of the object is the number of objective
\* invocations of the finished calls; inside a call the objective's counter
\* holds the invocations of that call.
C9_TotalIsSumOfCounts ==
  /\ pc = "idle" => nevals = invocations
  /\ pc \in {"loop", "pick", "minimize"} => nevals + F_nevals = invocations

\* C9 witness: two calls have returned and both evaluated the objective.
C9_Witness ==
  /\ pc = "idle"
  /\ subgame_number = 2
  /\ this_nevals > 0
  /\ nevals > this_nevals

\* The starting profile of subgame k: the m-th infoset of a player whose
\* subgame index is k supplies local infoset m.
Reindexed(G, b, st, isg, k) ==
  /\ Len(b) = Length(G)
  /\ \A s \in Infosets(FullGame) :
       isg[s[1]][s[2]] = k =>
         LET m == Cardinality({ j \in 1..s[2] : isg[s[1]][j] = k })
         IN \A a \in 1..NumActions(FullGame, s[1], s[2]) :
              b[Idx(G, s[1], m, a)] = st[Idx(FullGame, s[1], s[2], a)]

\* C10: a call of SolveSubgame increments the subgame counter by one and
\* builds the starting profile of that subgame by re-indexing; only the
\* infosets of that subgame are copied.
C10_StartIsReindexed ==
  [][(pc = "idle" /\ pc' = "loop") =>
       /\ subgame_number' = subgame_number + 1
       /\ Reindexed(E', bp', start, infoset_subgames, subgame_number')
       /\ Len(bp') = SeqSum([n \in 1..Len(start) |->
            IF \E s \in Infosets(FullGame) :
                 /\ infoset_subgames[s[1]][s[2]] = subgame_number'
                 /\ n \in Idx(FullGame, s[1], s[2], 1)
                          ..Idx(FullGame, s[1], s[2], NumActions(FullGame, s[1], s[2]))
            THEN 1 ELSE 0])]_vars

\* C10 witness: the second call, where the second infoset of player 1 is
\* local infoset 1 of subgame 2.
C10_Witness ==
  /\ pc = "loop"
  /\ i = 1
  /\ subgame_number = 2
  /\ infoset_subgames[1] = << 1, 2 >>
  /\ infoset_subgames[2] = << 1 >>
  /\ bp = SubSeq(start, 2, 4)

\* An infoset whose first member names a root that is not in the marked list.
Unmarked(s) == \A n \in 1..Len(subroots) : subroots[n] # memberRoot[s]

\* C11: after construction every infoset of every player is mapped to an
\* index in 1..Len(subroots), the position in the marked-roots list of the
\* subgame root of its first member; when some infoset matches no marked
\* root, construction ends in the fatal assertion and never completes.
C11_EveryInfosetIndexed ==
  /\ pc = "built" =>
       \A s \in Infosets(FullGame) :
          /\ infoset_subgames[s[1]][s[2]] \in 1..Len(subroots)
          /\ subroots[infoset_subgames[s[1]][s[2]]] = memberRoot[s]
  /\ pc = "aborted" => \E s \in Infosets(FullGame) : Unmarked(s)
  /\ (pc \in {"built", "aborted"} /\ \E s \in Infosets(FullGame) : Unmarked(s))
       => pc = "aborted"

\* C11 witness: a completed construction whose infosets lie in both subgames,
\* the first infoset of player 1 under the second marked root.
C11_Witness ==
  /\ pc = "built"
  /\ memberRoot[<<1, 1>>] = "sub"
  /\ memberRoot[<<1, 2>>] = "root"
  /\ infoset_subgames = << <<2, 1>>, <<2>> >>

\* The profile draws a distribution over the actions of every infoset.
Sampled(G, prof) ==
  \A s \in Infosets(G) :
     /\ \A k \in 1..NumActions(G, s[1], s[2]) :
          prof[Idx(G, s[1], s[2], k)] \in 0..Scale
     /\ SumTo([k \in 1..NumActions(G, s[1], s[2]) |->
                prof[Idx(G, s[1], s[2], k)]], NumActions(G, s[1], s[2])) = Scale

\* C12: every call of Liap returns; the minimizer runs are numbered by the
\* loop counter, which is at most nTries when a run starts and grows by one
\* with every run, so there are at most nTries of them; run 1 starts from
\* the profile handed in and every later run starts right after
\* PickRandomProfile has sampled a new profile.
C12_LiapTerminates ==
  /\ [](pc = "minimize" => i \in 1..nTries)
  /\ [][(pc = "minimize" /\ pc' # "minimize") => i' = i + 1]_vars
  /\ [][(pc # "minimize" /\ pc' = "minimize") =>
         IF i' = 1 THEN pc = "loop" /\ p' = bp'
         ELSE (pc = "pick" \/ Length(E) = 0) /\ Sampled(E', p')]_vars
  /\ (pc = "loop") ~> (pc = "idle")

\* C12 witness: a call has returned after nTries = 2 minimizer runs that all
\* failed, the second from a sampled profile.
C12_Witness ==
  /\ pc = "idle"
  /\ subgame_number = 1
  /\ nTries = 2
  /\ nFound = 0
  /\ this_nevals = PowellEvals(FALSE) * nTries

\* C13: for every array, square or not and with any offsets, Transpose
\* completes without an index error and returns an array with row bounds
\* mincol..maxcol and column bounds minrow..maxrow whose element (j,i) is the
\* original element (i,j) for every row i and column j of the original.
C13_TransposeIsTransposed ==
  pc \in {"returned", "thrown"} =>
     /\ pc = "returned"
     /\ transposed.minrow = mincol
     /\ transposed.maxrow = maxcol
     /\ transposed.mincol = minrow
     /\ transposed.maxcol = maxrow
     /\ \A r \in minrow..maxrow, c \in mincol..maxcol :
          transposed.data[<<c, r>>] = data[<<r, c>>]

====
